---- MODULE Spec2Model ----
(***************************************************************************)
(* A model of auto_forge.py: the remote planner with its fallback, the     *)
(* blueprint validation, the project-name sanitisation, the structure      *)
(* creation, the test/fix loop and main, which runs them in order.         *)
(*                                                                         *)
(* Python strings that the code inspects character by character (topics,   *)
(* test commands, file and folder names) are sequences of one-character    *)
(* strings.  Python dicts are functions whose DOMAIN is the set of keys    *)
(* that are present; Python lists are sequences.                           *)
(***************************************************************************)
EXTENDS Integers, Sequences, FiniteSets, TLC

(***************************************************************************)
(* Bounds of the model.                                                    *)
(***************************************************************************)
\* the largest max_attempts run_tests is called with
MaxAttemptsBound == 3
\* the largest number of file objects in a blueprint given to parse_structure
MaxFiles == 2
\* the largest number of characters before and after the middle of a topic
\* given to _sanitize_name
MaxAffix == 2
\* the largest number of create_structure calls made in succession
MaxCreateCalls == 2
\* the largest number of _get_fallback_structure calls made on one planner
MaxFallbackCalls == 3

VARIABLES
    topic,          \* the topic: argument of ask, _get_fallback_structure,
                    \* create_structure and _sanitize_name
    fallback_structure,   \* MistralPlanner.fallback_structure
    ask_pc,         \* position in ask: "idle", "attempt", "returned", "raised"
    ask_attempt,    \* the loop variable `attempt` of ask, counted from 1
    ask_calls,      \* the timeout of every requests.post call so far, in order
    ask_last,       \* what the last requests.post call did
    ask_result,     \* what ask returned or raised
    json_string,    \* parse_structure argument: the text to parse
    ps_result,      \* what parse_structure returned or raised
    sn_result,      \* what _sanitize_name returned: <<>> before, else <<name>>
    fs,             \* the file system below desktop_path: path -> node
    cs_result,      \* what create_structure returned or raised
    main_pc,        \* position in main
    phases,         \* the steps main has started so far, in order
    test_command,   \* run_tests argument: the command, a character sequence
    max_attempts,   \* run_tests argument
    package_json,   \* whether project_path / "package.json" exists
    rt_pc,          \* position in run_tests: "idle", "entry", "loop", "failed",
                    \* "fixing",
                    \* or the return statement that ended the call
    attempt,        \* the loop variable of `for attempt in range(max_attempts)`
    rt_result,      \* the returned value: "none" until run_tests returns
    executions,     \* how many times subprocess.run was called
    fixes,          \* how many times _fix_with_copilot was called
    error_file,     \* copilot_error_fix.txt: <<>> when absent, else <<content>>
    outcomes,       \* the outcome of every subprocess.run so far, in order
    fb_result,      \* what the last direct _get_fallback_structure call returned
    fb_calls,       \* the topic of every direct _get_fallback_structure call, in order
    cs_initial,     \* the file system before the first direct create_structure call
    cs_calls        \* the blueprint of every direct create_structure call, in order

plannerVars == <<topic, fallback_structure>>
askVars == <<ask_pc, ask_attempt, ask_calls, ask_last, ask_result>>
rtVars == <<test_command, max_attempts, package_json, rt_pc, attempt, rt_result,
            executions, fixes, error_file, outcomes>>

parseVars == <<json_string, ps_result>>
nameVars == <<sn_result>>
createVars == <<fs, cs_result>>
mainVars == <<main_pc, phases>>
directVars == <<fb_result, fb_calls, cs_initial, cs_calls>>

vars == <<plannerVars, askVars, parseVars, nameVars, createVars, rtVars, mainVars,
          directVars>>

\* what the steps of ask, of run_tests and of main leave alone
askFrame == <<topic, parseVars, nameVars, createVars, rtVars, mainVars, directVars>>
rtFrame == <<plannerVars, askVars, parseVars, nameVars, createVars, mainVars,
            directVars>>

(***************************************************************************)
(* Strings as character sequences.                                         *)
(***************************************************************************)
UpperCase == <<"A", "B", "C", "D", "E", "F", "G", "H", "I", "J", "K", "L", "M",
               "N", "O", "P", "Q", "R", "S", "T", "U", "V", "W", "X", "Y", "Z">>
LowerCase == <<"a", "b", "c", "d", "e", "f", "g", "h", "i", "j", "k", "l", "m",
               "n", "o", "p", "q", "r", "s", "t", "u", "v", "w", "x", "y", "z">>

\* str.lower() on one character
LowerChar(c) ==
    IF \E i \in DOMAIN UpperCase : UpperCase[i] = c
    THEN LowerCase[CHOOSE i \in DOMAIN UpperCase : UpperCase[i] = c]
    ELSE c

\* str.lower()
Lower(s) == [i \in 1..Len(s) |-> LowerChar(s[i])]

\* `needle in haystack` for two strings
Contains(haystack, needle) ==
    \E i \in 0..(Len(haystack) - Len(needle)) :
        \A j \in 1..Len(needle) : haystack[i + j] = needle[j]

\* s[n:] and s[:n] for 0 <= n; s[:-n] is Take(s, Len(s) - n)
Drop(s, n) == IF n >= Len(s) THEN <<>> ELSE SubSeq(s, n + 1, Len(s))
Take(s, n) == IF n <= 0 THEN <<>> ELSE SubSeq(s, 1, IF n < Len(s) THEN n ELSE Len(s))

Range(s) == {s[i] : i \in DOMAIN s}

\* str.startswith / str.endswith
StartsWith(s, prefix) ==
    /\ Len(s) >= Len(prefix)
    /\ \A i \in 1..Len(prefix) : s[i] = prefix[i]
EndsWith(s, suffix) ==
    /\ Len(s) >= Len(suffix)
    /\ \A i \in 1..Len(suffix) : s[Len(s) - Len(suffix) + i] = suffix[i]

\* str.strip(chars): the longest run of characters of `chars` is removed
\* from each end
RECURSIVE LStrip(_, _)
LStrip(s, chars) ==
    IF s # <<>> /\ s[1] \in chars THEN LStrip(Tail(s), chars) ELSE s
RECURSIVE RStrip(_, _)
RStrip(s, chars) ==
    IF s # <<>> /\ s[Len(s)] \in chars THEN RStrip(Take(s, Len(s) - 1), chars) ELSE s
StripChars(s, chars) == RStrip(LStrip(s, chars), chars)

(***************************************************************************)
(* Names, paths and texts of the blueprints.                               *)
(*                                                                         *)
(* A path is the sequence of its components, so "src/main.py" is           *)
(* <<N_src, N_main_py>> and the empty path "" is <<>>.  A text that the    *)
(* code only copies is [fmt, arg]: the literal, and the topic that an      *)
(* f-string interpolates into it at "{topic}" (<<>> for a plain literal).  *)
(***************************************************************************)
N_src == <<"s", "r", "c">>
N_tests == <<"t", "e", "s", "t", "s">>
N_docs == <<"d", "o", "c", "s">>
N_assets == <<"a", "s", "s", "e", "t", "s">>
N_css == <<"c", "s", "s">>
N_js == <<"j", "s">>
N_config == <<"c", "o", "n", "f", "i", "g">>
N_main_py == <<"m", "a", "i", "n", ".", "p", "y">>
N_test_main_py == <<"t", "e", "s", "t", "_", "m", "a", "i", "n", ".", "p", "y">>
N_README_md == <<"R", "E", "A", "D", "M", "E", ".", "m", "d">>
N_index_html == <<"i", "n", "d", "e", "x", ".", "h", "t", "m", "l">>
N_style_css == <<"s", "t", "y", "l", "e", ".", "c", "s", "s">>
N_main_js == <<"m", "a", "i", "n", ".", "j", "s">>
N_app_py == <<"a", "p", "p", ".", "p", "y">>
N_models_py == <<"m", "o", "d", "e", "l", "s", ".", "p", "y">>
N_test_app_py == <<"t", "e", "s", "t", "_", "a", "p", "p", ".", "p", "y">>

Text(s) == [fmt |-> s, arg |-> <<>>]
Fmt(s, t) == [fmt |-> s, arg |-> t]

FileObj(path, description, prompt) ==
    [path |-> path, description |-> description, copilot_prompt |-> prompt]

CmdEmpty == <<>>
CmdPytest == <<"p", "y", "t", "e", "s", "t", " ", "t", "e", "s", "t", "s">>
CmdNpmTest == <<"n", "p", "m", " ", "t", "e", "s", "t">>
CmdNpmUpper == <<"N", "P", "M", " ", "T", "E", "S", "T">>
CmdMake == <<"m", "a", "k", "e">>

(***************************************************************************)
(* Response texts.  A text is a sequence of items: a character, or a whole *)
(* JSON document, which json.dumps writes and json.loads reads back.       *)
(***************************************************************************)
Ch(c) == [c |-> c, d |-> <<>>]
DocItem(v) == [c |-> "{}", d |-> <<v>>]
Whitespace == {Ch(" "), Ch("\n"), Ch("\t")}

\* str.strip()
Strip(s) == StripChars(s, Whitespace)

\* json.dumps(structure, indent=2)
JsonDumps(structure) == <<DocItem(structure)>>

(***************************************************************************)
(* MistralPlanner.__init__ and _get_fallback_structure                     *)
(***************************************************************************)
MainPyPath == <<N_src, N_main_py>>

InitialFallbackStructure ==
    [folders |-> <<(<<N_src>>), (<<N_tests>>), (<<N_docs>>)>>,
     files |-> <<
        FileObj(MainPyPath,
                Text("Main application entry point"),
                Text("Create a Python main.py file that serves as the entry point for the application")),
        FileObj(<<N_tests, N_test_main_py>>,
                Text("Unit tests for main module"),
                Text("Create pytest unit tests for the main.py module")),
        FileObj(<<N_README_md>>,
                Text("Project documentation"),
                Text("Create a comprehensive README.md file for this project"))>>,
     interactions |-> Text("Basic project structure with main application file, tests, and documentation."),
     test_command |-> CmdPytest]

WebWords == {<<"w", "e", "b">>, <<"w", "e", "b", "s", "i", "t", "e">>,
             <<"h", "t", "m", "l">>, <<"c", "s", "s">>, <<"j", "s">>}
BackendWords == {<<"a", "p", "i">>, <<"s", "e", "r", "v", "e", "r">>,
                 <<"b", "a", "c", "k", "e", "n", "d">>}

\* `any(word in topic_lower for word in [...])`
AnyWordIn(words, t) == \E w \in words : Contains(Lower(t), w)

\* a web template whose stylesheet entry has no copilot_prompt
WebStructureMissingPrompt(t) ==
    [folders |-> <<(<<N_src>>), (<<N_assets>>), (<<N_css>>), (<<N_js>>), (<<N_tests>>)>>,
     files |-> <<
        FileObj(<<N_src, N_index_html>>,
                Fmt("Main HTML file for {topic}", t),
                Fmt("Create a complete HTML5 webpage for {topic} with modern structure and semantic elements", t)),
        [path |-> <<N_css, N_style_css>>, description |-> Text("Main stylesheet")],
        FileObj(<<N_js, N_main_js>>,
                Text("Main JavaScript functionality"),
                Fmt("Create JavaScript code for {topic} with interactive features and modern ES6+ syntax", t))>>,
     interactions |-> Fmt("A web project for {topic} with HTML structure, CSS styling, and JavaScript functionality working together to create an interactive website.", t),
     test_command |-> CmdEmpty]

WebStructure(t) ==
    [folders |-> <<(<<N_src>>), (<<N_assets>>), (<<N_css>>), (<<N_js>>), (<<N_tests>>)>>,
     files |-> <<
        FileObj(<<N_src, N_index_html>>,
                Fmt("Main HTML file for {topic}", t),
                Fmt("Create a complete HTML5 webpage for {topic} with modern structure and semantic elements", t)),
        FileObj(<<N_css, N_style_css>>,
                Text("Main stylesheet"),
                Fmt("Create modern, responsive CSS styles for {topic} webpage with animations and good typography", t)),
        FileObj(<<N_js, N_main_js>>,
                Text("Main JavaScript functionality"),
                Fmt("Create JavaScript code for {topic} with interactive features and modern ES6+ syntax", t))>>,
     interactions |-> Fmt("A web project for {topic} with HTML structure, CSS styling, and JavaScript functionality working together to create an interactive website.", t),
     test_command |-> CmdEmpty]

BackendStructure(t) ==
    [folders |-> <<(<<N_src>>), (<<N_tests>>), (<<N_config>>)>>,
     files |-> <<
        FileObj(<<N_src, N_app_py>>,
                Fmt("Main application server for {topic}", t),
                Fmt("Create a FastAPI or Flask server application for {topic} with RESTful endpoints", t)),
        FileObj(<<N_src, N_models_py>>,
                Text("Data models"),
                Fmt("Create Pydantic or SQLAlchemy models for {topic} application", t)),
        FileObj(<<N_tests, N_test_app_py>>,
                Text("API tests"),
                Fmt("Create comprehensive pytest tests for {topic} API endpoints", t))>>,
     interactions |-> Fmt("A backend API for {topic} with models, endpoints, and tests working together.", t),
     test_command |-> CmdPytest]

\* a customization that leaves a prompt alone once it names a topic
CustomizedFilesOnce(files, t) ==
    [i \in DOMAIN files |->
        IF files[i]["path"] = MainPyPath /\ files[i]["copilot_prompt"].arg = <<>>
        THEN [files[i] EXCEPT !["copilot_prompt"] =
                 Fmt("Create a Python application for {topic} with proper structure and functionality", t)]
        ELSE files[i]]

\* Lines 176-182.  dict.copy() is shallow: the copy has its own top-level
\* keys but shares the list of files and the file dicts with
\* self.fallback_structure, so the new prompt of src/main.py is written into
\* both; the new "interactions" is written into the copy only.
CustomizedFiles(files, t) ==
    [i \in DOMAIN files |->
        IF files[i]["path"] = MainPyPath
        THEN [files[i] EXCEPT !["copilot_prompt"] =
                 Fmt("Create a Python application for {topic} with proper structure and functionality", t)]
        ELSE files[i]]

GenericStored(stored, t) ==
    [stored EXCEPT !["files"] = CustomizedFiles(stored["files"], t)]

GenericStructure(stored, t) ==
    [GenericStored(stored, t) EXCEPT !["interactions"] =
        Fmt("A Python project for {topic} with main application, tests, and documentation.", t)]

\* a classification that looks for the backend words first
GetFallbackStructureBackendFirst(stored, t) ==
    IF AnyWordIn(BackendWords, t)
    THEN [text |-> JsonDumps(BackendStructure(t)), stored |-> stored]
    ELSE IF AnyWordIn(WebWords, t)
    THEN [text |-> JsonDumps(WebStructure(t)), stored |-> stored]
    ELSE [text |-> JsonDumps(GenericStructure(stored, t)),
          stored |-> GenericStored(stored, t)]

\* _get_fallback_structure(topic) on a planner whose fallback_structure is
\* `stored`: the returned text, and fallback_structure after the call
GetFallbackStructure(stored, t) ==
    IF AnyWordIn(WebWords, t)
    THEN [text |-> JsonDumps(WebStructure(t)), stored |-> stored]
    ELSE IF AnyWordIn(BackendWords, t)
    THEN [text |-> JsonDumps(BackendStructure(t)), stored |-> stored]
    ELSE [text |-> JsonDumps(GenericStructure(stored, t)),
          stored |-> GenericStored(stored, t)]

TopicWebApi == <<"W", "e", "b", " ", "A", "P", "I">>
TopicServer == <<"S", "e", "r", "v", "e", "r">>
TopicCli == <<"c", "l", "i">>
TopicGame == <<"g", "a", "m", "e">>
Topics == {TopicWebApi, TopicServer, TopicCli, TopicGame}

(***************************************************************************)
(* MistralPlanner.ask                                                      *)
(***************************************************************************)
\* `timeouts = [30, 60, 90]`
Timeouts == <<30, 60, 90>>

\* Blueprints a remote answer may carry.
DocGood ==
    [folders |-> <<(<<N_src>>)>>,
     files |-> <<FileObj(MainPyPath, Text("entry point"), Text("write main.py")),
                 FileObj(<<N_README_md>>, Text("documentation"), Text("write the README"))>>,
     interactions |-> Text("main.py is documented by the README"),
     test_command |-> CmdNpmTest]
DocEmptyPath ==
    [folders |-> <<(<<N_src>>)>>,
     files |-> <<FileObj(<<>>, Text("entry point"), Text("write main.py"))>>,
     interactions |-> Text("one file"),
     test_command |-> CmdPytest]
DocMissingPrompt ==
    [folders |-> <<(<<N_src>>)>>,
     files |-> <<FileObj(MainPyPath, Text("entry point"), Text("write main.py")),
                 [path |-> <<N_README_md>>, description |-> Text("documentation")]>>,
     interactions |-> Text("main.py is documented by the README")]
DocOnlyFiles ==
    [files |-> <<FileObj(<<N_tests, N_test_main_py>>, Text("tests"), Text("write tests"))>>]

\* the backquote character, which a TLA+ string cannot hold
BackQuote == Ch("<backquote>")
FenceJson == <<BackQuote, BackQuote, BackQuote, Ch("j"), Ch("s"), Ch("o"), Ch("n")>>
Fence == <<BackQuote, BackQuote, BackQuote>>

\* The `content` strings of well-formed remote answers.
RemoteTexts ==
    {JsonDumps(DocGood),
     <<Ch(" ")>> \o JsonDumps(DocOnlyFiles) \o <<Ch("\n")>>,
     FenceJson \o <<Ch("\n")>> \o JsonDumps(DocGood) \o <<Ch("\n")>> \o Fence,
     JsonDumps(DocEmptyPath),
     JsonDumps(DocMissingPrompt),
     <<Ch("n"), Ch("o")>>}

\* What one requests.post call, raise_for_status and response.json() can
\* do.  A decoded body is described along the path the code walks,
\* data["choices"][0]["message"]["content"]: `shape` lists the JSON type of
\* data, of data["choices"], of its element 0, of its "message" and of its
\* "content", and ends where a key or an element is missing.
Response(kind, shape, content) == [kind |-> kind, shape |-> shape, content |-> content]
NoResponse == Response("none", <<>>, <<>>)

GoodShape == <<"dict", "list", "dict", "dict", "str">>
BadShapes ==
    {<<"dict">>,                                   \* no "choices"
     <<"dict", "list">>,                           \* "choices": []
     <<"dict", "list", "dict">>,                   \* no "message"
     <<"dict", "list", "dict", "dict">>,           \* no "content"
     <<"dict", "null">>,                           \* "choices": null
     <<"list">>,                                   \* the body is a JSON array
     <<"dict", "list", "dict", "dict", "null">>}   \* "content": null

Responses ==
    {Response(k, <<>>, <<>>) : k \in {"timeout", "connection_error", "http_error", "not_json"}}
    \cup {Response("body", s, <<>>) : s \in BadShapes}
    \cup {Response("body", GoodShape, t) : t \in RemoteTexts}

\* value[key] for a string key: what Python raises, or "ok"
KeyLookup(shape, i) ==
    IF shape[i] # "dict" THEN "TypeError"
    ELSE IF Len(shape) <= i THEN "KeyError"
    ELSE "ok"

\* value[0]: what Python raises, or "ok"
IndexLookup(shape, i) ==
    IF shape[i] = "dict" THEN "KeyError"
    ELSE IF shape[i] \notin {"list", "str"} THEN "TypeError"
    ELSE IF Len(shape) <= i THEN "IndexError"
    ELSE "ok"

\* Line 101: data["choices"][0]["message"]["content"].strip(), left to right
Extract(shape) ==
    IF KeyLookup(shape, 1) # "ok" THEN KeyLookup(shape, 1)
    ELSE IF IndexLookup(shape, 2) # "ok" THEN IndexLookup(shape, 2)
    ELSE IF KeyLookup(shape, 3) # "ok" THEN KeyLookup(shape, 3)
    ELSE IF KeyLookup(shape, 4) # "ok" THEN KeyLookup(shape, 4)
    ELSE IF shape[5] # "str" THEN "AttributeError"
    ELSE "ok"

\* Lines 97-101: the exception the try body raises for response r, or "ok".
\* requests raises its own JSONDecodeError, a RequestException, for a body
\* that is not JSON.
TryBody(r) ==
    CASE r.kind = "timeout" -> "Timeout"
      [] r.kind \in {"connection_error", "http_error", "not_json"} -> "RequestException"
      [] OTHER -> Extract(r.shape)

AskInit ==
    /\ topic \in Topics
    /\ fallback_structure = InitialFallbackStructure
    /\ ask_pc = "attempt"
    /\ ask_attempt = 1
    /\ ask_calls = <<>>
    /\ ask_last = NoResponse
    /\ ask_result = [how |-> "none", text |-> <<>>]

\* one requests.post call, with the timeout of this attempt
Post(r) ==
    /\ ask_pc = "attempt"
    /\ ask_attempt <= Len(Timeouts)
    /\ ask_calls' = Append(ask_calls, Timeouts[ask_attempt])
    /\ ask_last' = r

\* `if attempt == len(timeouts): return self._get_fallback_structure(topic)`,
\* else `time.sleep(2)` and the next iteration
FallbackOrRetry ==
    IF ask_attempt = Len(Timeouts)
    THEN LET got == GetFallbackStructure(fallback_structure, topic)
         IN /\ ask_result' = [how |-> "fallback", text |-> got.text]
            /\ fallback_structure' = got.stored
            /\ ask_pc' = "returned"
            /\ UNCHANGED ask_attempt
    ELSE /\ ask_attempt' = ask_attempt + 1
         /\ UNCHANGED <<ask_pc, ask_result, fallback_structure>>

\* lines 97-101: the call succeeds and the content is returned stripped
AskSuccess ==
    /\ \E r \in Responses :
          /\ TryBody(r) = "ok"
          /\ Post(r)
          /\ ask_result' = [how |-> "remote", text |-> Strip(r.content)]
    /\ ask_pc' = "returned"
    /\ UNCHANGED <<fallback_structure, ask_attempt, askFrame>>

\* lines 103-108
AskTimeout ==
    /\ \E r \in Responses : TryBody(r) = "Timeout" /\ Post(r)
    /\ FallbackOrRetry
    /\ UNCHANGED askFrame

\* lines 110-115
AskRequestException ==
    /\ \E r \in Responses : TryBody(r) = "RequestException" /\ Post(r)
    /\ FallbackOrRetry
    /\ UNCHANGED askFrame

\* lines 117-121
AskKeyOrIndexError ==
    /\ \E r \in Responses : TryBody(r) \in {"KeyError", "IndexError"} /\ Post(r)
    /\ FallbackOrRetry
    /\ UNCHANGED askFrame

\* line 101 raises an exception that no except clause of ask names: it
\* leaves ask
AskUncaught ==
    /\ \E r \in Responses :
          /\ TryBody(r) \in {"TypeError", "AttributeError"}
          /\ Post(r)
          /\ ask_result' = [how |-> TryBody(r), text |-> <<>>]
    /\ ask_pc' = "raised"
    /\ UNCHANGED <<fallback_structure, ask_attempt, askFrame>>

AskNext ==
    \/ AskSuccess
    \/ AskTimeout
    \/ AskRequestException
    \/ AskKeyOrIndexError
    \/ AskUncaught

(***************************************************************************)
(* MistralPlanner.parse_structure                                          *)
(***************************************************************************)
FileKeys == {"path", "description", "copilot_prompt"}

\* json.loads: the text is one JSON document, with JSON whitespace around it
\* at most; anything else is a JSONDecodeError
JsonLoads(s) ==
    LET w == StripChars(s, Whitespace)
    IN IF Len(w) = 1 /\ w[1].d # <<>>
       THEN [status |-> "ok", value |-> w[1].d]
       ELSE [status |-> "JSONDecodeError", value |-> <<>>]

\* lines 190-194
StripFences(s) ==
    LET stripped == Strip(s)
        opened == IF StartsWith(stripped, FenceJson) THEN Drop(stripped, 7) ELSE stripped
    IN IF EndsWith(opened, Fence) THEN Take(opened, Len(opened) - 3) ELSE opened

\* `if key not in structure: structure[key] = default`
SetDefault(structure, key, default) ==
    IF key \in DOMAIN structure THEN structure ELSE (key :> default) @@ structure

\* lines 199-204
WithDefaults(structure) ==
    SetDefault(SetDefault(SetDefault(structure,
        "folders", <<>>), "files", <<>>), "interactions", Text(""))

\* line 208: `all(key in file_obj for key in ["path", "description", "copilot_prompt"])`
FileObjValidAnyKey(file_obj) == \E key \in FileKeys : key \in DOMAIN file_obj
FileObjValid(file_obj) == \A key \in FileKeys : key \in DOMAIN file_obj

\* parse_structure(json_string): the structure it returns, or the exception
\* it raises
ParseStructure(s) ==
    LET loaded == JsonLoads(StripFences(s))
    IN IF loaded.status # "ok"
       THEN [status |-> "JSONDecodeError", structure |-> <<>>]
       ELSE LET structure == WithDefaults(loaded.value[1])
            IN IF \E i \in DOMAIN structure["files"] : ~FileObjValid(structure["files"][i])
               THEN [status |-> "ValueError", structure |-> <<>>]
               ELSE [status |-> "ok", structure |-> <<structure>>]

NotParsed == [status |-> "none", structure |-> <<>>]

(***************************************************************************)
(* StructureCreator._sanitize_name                                         *)
(***************************************************************************)
\* `return sanitized[:50]`
NameLimit == 50

\* the character class of `re.sub(r'[<>:"/\\|?*]', '_', name)`
IllegalChars == {"<", ">", ":", "\"", "/", "\\", "|", "?", "*"}

\* lines 297-299: replace, then strip, then truncate
SanitizeName(name) ==
    LET replaced == [i \in 1..Len(name) |-> IF name[i] \in IllegalChars THEN "_" ELSE name[i]]
        stripped == StripChars(replaced, {".", " "})
    IN Take(stripped, NameLimit)

(***************************************************************************)
(* StructureCreator.create_structure                                       *)
(*                                                                         *)
(* The file system below desktop_path is a function from paths to nodes;   *)
(* desktop_path itself is the path <<>>.                                   *)
(***************************************************************************)
NoContent == [what |-> "none"]
Dir == [type |-> "dir", content |-> NoContent]
File(content) == [type |-> "file", content |-> content]

\* lines 257-260: the stub written into every declared file
Stub(file_obj) ==
    [what |-> "stub",
     description |-> file_obj["description"],
     copilot_prompt |-> file_obj["copilot_prompt"]]

\* the key is there, whatever its value
HasTestCommandKey(structure) == "test_command" \in DOMAIN structure

\* `structure.get("test_command")` is truthy
HasTestCommand(structure) ==
    "test_command" \in DOMAIN structure /\ structure["test_command"] # <<>>

\* lines 269-285: the README, with its Testing section (<<>> when left out)
Readme(t, structure) ==
    [what |-> "readme",
     topic |-> t,
     interactions |-> structure["interactions"],
     testing |-> IF HasTestCommand(structure) THEN <<structure["test_command"]>> ELSE <<>>]

IsPrefix(p, q) == Len(p) <= Len(q) /\ \A i \in 1..Len(p) : q[i] = p[i]
Parent(p) == IF p = <<>> THEN <<>> ELSE Take(p, Len(p) - 1)
Exists(f, p) == p \in DOMAIN f
IsDir(f, p) == Exists(f, p) /\ f[p].type = "dir"
IsFile(f, p) == Exists(f, p) /\ f[p].type = "file"

Ok(f) == [err |-> "ok", fs |-> f]
Failed(e, f) == [err |-> e, fs |-> f]

\* a removal of p alone, which leaves what is below it
RmTreeOnlyRoot(f, p) ==
    IF IsFile(f, p) THEN Failed("NotADirectoryError", f)
    ELSE Ok([q \in DOMAIN f \ {p} |-> f[q]])

\* shutil.rmtree(p): p and everything below it goes
RmTree(f, p) ==
    IF IsFile(f, p) THEN Failed("NotADirectoryError", f)
    ELSE Ok([q \in {q \in DOMAIN f : ~IsPrefix(p, q)} |-> f[q]])

\* p.mkdir(parents=True, exist_ok=True)
MkdirP(f, p) ==
    IF \E n \in 0..Len(p) : IsFile(f, Take(p, n))
    THEN Failed("FileExistsError", f)
    ELSE Ok([q \in DOMAIN f \cup {Take(p, n) : n \in 0..Len(p)} |->
                IF q \in DOMAIN f THEN f[q] ELSE Dir])

\* `with open(p, 'w') as f: f.write(content)`: the file is created or
\* truncated, and the content written
WriteFile(f, p, content) ==
    IF IsDir(f, p) THEN Failed("IsADirectoryError", f)
    ELSE IF ~IsDir(f, Parent(p)) THEN Failed("FileNotFoundError", f)
    ELSE Ok([q \in DOMAIN f \cup {p} |-> IF q = p THEN File(content) ELSE f[q]])

\* lines 246-249, from folder i on
RECURSIVE CreateFolders(_, _, _, _)
CreateFolders(f, project_path, folders, i) ==
    IF i > Len(folders) THEN Ok(f)
    ELSE LET made == MkdirP(f, project_path \o folders[i])
         IN IF made.err # "ok" THEN made
            ELSE CreateFolders(made.fs, project_path, folders, i + 1)

\* lines 252-265, from file i on
RECURSIVE CreateFiles(_, _, _, _)
CreateFiles(f, project_path, files, i) ==
    IF i > Len(files) THEN Ok(f)
    ELSE LET file_path == project_path \o files[i]["path"]
             made == MkdirP(f, Parent(file_path))
             written == WriteFile(made.fs, file_path, Stub(files[i]))
         IN IF made.err # "ok" THEN made
            ELSE IF written.err # "ok" THEN written
            ELSE CreateFiles(written.fs, project_path, files, i + 1)

\* lines 234-235: desktop_path / project_name; an empty name gives
\* desktop_path itself
ProjectPath(t) == IF SanitizeName(t) = <<>> THEN <<>> ELSE <<SanitizeName(t)>>

\* create_structure(topic, structure) on file system f: the file system it
\* leaves, and "ok" or the exception it raises.  Nothing is rolled back.
CreateStructure(f, t, structure) ==
    LET project_path == ProjectPath(t)
        removed == IF Exists(f, project_path) THEN RmTree(f, project_path) ELSE Ok(f)
        root == MkdirP(removed.fs, project_path)
        folders == CreateFolders(root.fs, project_path, structure["folders"], 1)
        files == CreateFiles(folders.fs, project_path, structure["files"], 1)
        readme == WriteFile(files.fs, project_path \o <<N_README_md>>, Readme(t, structure))
    IN IF removed.err # "ok" THEN removed
       ELSE IF root.err # "ok" THEN root
       ELSE IF folders.err # "ok" THEN folders
       ELSE IF files.err # "ok" THEN files
       ELSE readme

(***************************************************************************)
(* TestRunner.run_tests                                                    *)
(***************************************************************************)
NpmWord == <<"n", "p", "m">>
TestCommands == {CmdEmpty, CmdPytest, CmdNpmTest, CmdNpmUpper, CmdMake}

ReturnCodes == {0, 1, 2}
StderrTexts == {"E1", "E2"}
StdoutTexts == {"O1"}

\* What one subprocess.run call can do: complete with a return code and the
\* captured streams, raise TimeoutExpired, or raise another exception.
Completed(rc, err, out) ==
    [kind |-> "exit", returncode |-> rc, stderr |-> err, stdout |-> out]
TimedOut == [kind |-> "timeout", returncode |-> -1, stderr |-> "", stdout |-> ""]
Raised == [kind |-> "error", returncode |-> -1, stderr |-> "", stdout |-> ""]

ReturnLabels == {"ret_no_command", "ret_no_package_json", "ret_passed",
                 "ret_timeout", "ret_error", "ret_exhausted"}

\* `if not test_command`
NoCommand(cmd) == cmd = <<>>

\* `if "npm" in test_command.lower()`
MentionsNpm(cmd) == Contains(Lower(cmd), NpmWord)

\* `for attempt in range(max_attempts)`: is there another iteration?
LoopContinuesOffByOne == attempt <= max_attempts
LoopContinues == attempt < max_attempts

\* _create_error_fix_file: the file is opened with 'w', so the new content
\* replaces whatever the file held.
ErrorFixContent(stderr, stdout) == [stderr |-> stderr, stdout |-> stdout]

RunTestsInit ==
    /\ test_command \in TestCommands
    /\ max_attempts \in 0..MaxAttemptsBound
    /\ package_json \in BOOLEAN
    /\ rt_pc = "entry"
    /\ attempt = 0
    /\ rt_result = "none"
    /\ executions = 0
    /\ fixes = 0
    /\ error_file = <<>>
    /\ outcomes = <<>>

Return(label, value) ==
    /\ rt_pc' = label
    /\ rt_result' = value

\* lines 408-410
SkipNoCommandReturnsFalse ==
    /\ rt_pc = "entry"
    /\ NoCommand(test_command)
    /\ Return("ret_no_command", "False")
    /\ UNCHANGED <<test_command, max_attempts, package_json, attempt,
                   executions, fixes, error_file, outcomes,
                   rtFrame>>
SkipNoCommand ==
    /\ rt_pc = "entry"
    /\ NoCommand(test_command)
    /\ Return("ret_no_command", "True")
    /\ UNCHANGED <<test_command, max_attempts, package_json, attempt,
                   executions, fixes, error_file, outcomes,
                   rtFrame>>

\* lines 413-417
SkipNoPackageJsonIgnoresFile ==
    /\ rt_pc = "entry"
    /\ ~NoCommand(test_command)
    /\ MentionsNpm(test_command)
    /\ Return("ret_no_package_json", "True")
    /\ UNCHANGED <<test_command, max_attempts, package_json, attempt,
                   executions, fixes, error_file, outcomes,
                   rtFrame>>
SkipNoPackageJson ==
    /\ rt_pc = "entry"
    /\ ~NoCommand(test_command)
    /\ MentionsNpm(test_command)
    /\ ~package_json
    /\ Return("ret_no_package_json", "True")
    /\ UNCHANGED <<test_command, max_attempts, package_json, attempt,
                   executions, fixes, error_file, outcomes,
                   rtFrame>>

\* lines 419-421: neither skip applies, the loop is entered
EnterLoop ==
    /\ rt_pc = "entry"
    /\ ~NoCommand(test_command)
    /\ ~(MentionsNpm(test_command) /\ ~package_json)
    /\ rt_pc' = "loop"
    /\ attempt' = 0
    /\ UNCHANGED <<test_command, max_attempts, package_json, rt_result,
                   executions, fixes, error_file, outcomes,
                   rtFrame>>

\* one subprocess.run call with outcome o
Execute(o) ==
    /\ executions' = executions + 1
    /\ outcomes' = Append(outcomes, o)

\* lines 425-435: the command exits 0
TestPassedKeepsLooping ==
    /\ rt_pc = "loop"
    /\ LoopContinues
    /\ \E err \in StderrTexts, out \in StdoutTexts : Execute(Completed(0, err, out))
    /\ attempt' = attempt + 1
    /\ UNCHANGED <<test_command, max_attempts, package_json, rt_pc, rt_result,
                   fixes, error_file, rtFrame>>
TestPassed ==
    /\ rt_pc = "loop"
    /\ LoopContinues
    /\ \E err \in StderrTexts, out \in StdoutTexts : Execute(Completed(0, err, out))
    /\ Return("ret_passed", "True")
    /\ UNCHANGED <<test_command, max_attempts, package_json, attempt,
                   fixes, error_file, rtFrame>>

\* lines 425-439: the command exits non-zero
TestFailed ==
    /\ rt_pc = "loop"
    /\ LoopContinues
    /\ \E rc \in ReturnCodes \ {0}, err \in StderrTexts, out \in StdoutTexts :
           Execute(Completed(rc, err, out))
    /\ rt_pc' = "failed"
    /\ UNCHANGED <<test_command, max_attempts, package_json, attempt, rt_result,
                   fixes, error_file, rtFrame>>

\* a writer that leaves an error file that is already there
CreateErrorFixFileKeepsOld ==
    /\ rt_pc = "failed"
    /\ LET last == outcomes[Len(outcomes)]
       IN error_file' = IF error_file = <<>>
                        THEN <<ErrorFixContent(last.stderr, last.stdout)>>
                        ELSE error_file
    /\ rt_pc' = "fixing"
    /\ UNCHANGED <<test_command, max_attempts, package_json, attempt, rt_result,
                   executions, fixes, outcomes, rtFrame>>

\* lines 441-442: after a non-zero exit, whatever the attempt number,
\* _create_error_fix_file(result.stderr, result.stdout) opens the error file
\* with mode 'w' and writes the content.  It is taken to return normally.
CreateErrorFixFile ==
    /\ rt_pc = "failed"
    /\ LET last == outcomes[Len(outcomes)]
       IN error_file' = <<ErrorFixContent(last.stderr, last.stdout)>>
    /\ rt_pc' = "fixing"
    /\ UNCHANGED <<test_command, max_attempts, package_json, attempt, rt_result,
                   executions, fixes, outcomes, rtFrame>>

\* lines 444-447: _fix_with_copilot() drives Copilot, and the loop goes to
\* the next iteration.  Driving Copilot is taken to return normally.
FixWithCopilot ==
    /\ rt_pc = "fixing"
    /\ fixes' = fixes + 1
    /\ attempt' = attempt + 1
    /\ rt_pc' = "loop"
    /\ UNCHANGED <<test_command, max_attempts, package_json, rt_result,
                   executions, error_file, outcomes, rtFrame>>

\* lines 449-451
TestTimeoutKeepsLooping ==
    /\ rt_pc = "loop"
    /\ LoopContinues
    /\ Execute(TimedOut)
    /\ attempt' = attempt + 1
    /\ UNCHANGED <<test_command, max_attempts, package_json, rt_pc, rt_result,
                   fixes, error_file, rtFrame>>
TestTimeout ==
    /\ rt_pc = "loop"
    /\ LoopContinues
    /\ Execute(TimedOut)
    /\ Return("ret_timeout", "False")
    /\ UNCHANGED <<test_command, max_attempts, package_json, attempt,
                   fixes, error_file, rtFrame>>

\* lines 452-454
TestError ==
    /\ rt_pc = "loop"
    /\ LoopContinues
    /\ Execute(Raised)
    /\ Return("ret_error", "False")
    /\ UNCHANGED <<test_command, max_attempts, package_json, attempt,
                   fixes, error_file, rtFrame>>

\* a loop that reports success when it runs out of iterations
ExhaustedReturnsTrue ==
    /\ rt_pc = "loop"
    /\ ~LoopContinues
    /\ Return("ret_exhausted", "True")
    /\ UNCHANGED <<test_command, max_attempts, package_json, attempt,
                   executions, fixes, error_file, outcomes,
                   rtFrame>>

\* lines 456-457: the loop ran out of iterations
Exhausted ==
    /\ rt_pc = "loop"
    /\ ~LoopContinues
    /\ Return("ret_exhausted", "False")
    /\ UNCHANGED <<test_command, max_attempts, package_json, attempt,
                   executions, fixes, error_file, outcomes,
                   rtFrame>>

RunTestsNext ==
    \/ SkipNoCommand
    \/ SkipNoPackageJson
    \/ EnterLoop
    \/ TestPassed
    \/ TestFailed
    \/ CreateErrorFixFile
    \/ FixWithCopilot
    \/ TestTimeout
    \/ TestError
    \/ Exhausted

(***************************************************************************)
(* main                                                                    *)
(***************************************************************************)
\* `def run_tests(self, test_command, max_attempts: int = 3)`
DefaultMaxAttempts == 3

N_package_json == <<"p", "a", "c", "k", "a", "g", "e", ".", "j", "s", "o", "n">>

Structure == ps_result.structure[1]

\* line 519: structure = planner.parse_structure(json_response)
MainParse ==
    /\ main_pc = "ask"
    /\ ask_pc = "returned"
    /\ json_string' = ask_result.text
    /\ ps_result' = ParseStructure(ask_result.text)
    /\ phases' = Append(phases, "parse")
    /\ main_pc' = IF ps_result'.status = "ok" THEN "create" ELSE "error"
    /\ UNCHANGED <<directVars, plannerVars, askVars, nameVars, createVars, rtVars>>

\* line 518 raised: the handler of main (lines 566-569) ends the run
MainAskRaised ==
    /\ main_pc = "ask"
    /\ ask_pc = "raised"
    /\ main_pc' = "error"
    /\ UNCHANGED <<directVars, plannerVars, askVars, parseVars, nameVars, createVars, rtVars, phases>>

\* a main that goes on to VS Code whatever create_structure did
MainCreateIgnoresError ==
    /\ main_pc = "create"
    /\ LET made == CreateStructure(fs, topic, Structure)
       IN /\ fs' = made.fs
          /\ cs_result' = made.err
          /\ main_pc' = "launch"
    /\ sn_result' = <<SanitizeName(topic)>>
    /\ phases' = Append(phases, "create")
    /\ UNCHANGED <<directVars, plannerVars, askVars, parseVars, rtVars>>

\* lines 530-531: project_path = creator.create_structure(topic, structure)
MainCreate ==
    /\ main_pc = "create"
    /\ LET made == CreateStructure(fs, topic, Structure)
       IN /\ fs' = made.fs
          /\ cs_result' = made.err
          /\ main_pc' = IF made.err = "ok" THEN "launch" ELSE "error"
    /\ sn_result' = <<SanitizeName(topic)>>
    /\ phases' = Append(phases, "create")
    /\ UNCHANGED <<directVars, plannerVars, askVars, parseVars, rtVars>>

\* lines 536-546: VS Code is launched or not; if it is, Copilot is driven
\* through every file
MainCopilot ==
    /\ main_pc = "launch"
    /\ \E vscode_launched \in BOOLEAN :
          phases' = IF vscode_launched THEN Append(phases, "copilot") ELSE phases
    /\ main_pc' = "step4"
    /\ UNCHANGED <<directVars, plannerVars, askVars, parseVars, nameVars, createVars, rtVars>>

\* lines 549-552: test_runner.run_tests(structure["test_command"]) is
\* called.  package.json is there if the blueprint declared it, and may be
\* there if Copilot wrote files.
MainRunTests ==
    /\ main_pc = "step4"
    /\ HasTestCommand(Structure)
    /\ main_pc' = "tests"
    /\ phases' = Append(phases, "tests")
    /\ test_command' = Structure["test_command"]
    /\ max_attempts' = DefaultMaxAttempts
    /\ package_json' \in {IsFile(fs, ProjectPath(topic) \o <<N_package_json>>)}
                          \cup {b \in {TRUE} : "copilot" \in Range(phases)}
    /\ rt_pc' = "entry"
    /\ UNCHANGED <<attempt, rt_result, executions, fixes, error_file, outcomes>>
    /\ UNCHANGED <<directVars, plannerVars, askVars, parseVars, nameVars, createVars>>

\* lines 558-559
MainSkipTests ==
    /\ main_pc = "step4"
    /\ ~HasTestCommand(Structure)
    /\ main_pc' = "done"
    /\ UNCHANGED <<directVars, plannerVars, askVars, parseVars, nameVars, createVars, rtVars, phases>>

\* lines 554-562: run_tests returned; either result ends the run normally
MainTestsReturned ==
    /\ main_pc = "tests"
    /\ rt_result # "none"
    /\ main_pc' = "done"
    /\ UNCHANGED <<directVars, plannerVars, askVars, parseVars, nameVars, createVars, rtVars, phases>>

(***************************************************************************)
(* Specifications                                                          *)
(***************************************************************************)
AskIdle ==
    /\ ask_pc = "idle"
    /\ ask_attempt = 1
    /\ ask_calls = <<>>
    /\ ask_last = NoResponse
    /\ ask_result = [how |-> "none", text |-> <<>>]
ParseIdle == json_string = <<>> /\ ps_result = NotParsed
NameIdle == sn_result = <<>>
CreateIdle == fs = (<<>> :> Dir) /\ cs_result = "none"
DirectIdle == fb_result = <<>> /\ fb_calls = <<>> /\ cs_initial = fs /\ cs_calls = <<>>
RunTestsIdle ==
    /\ test_command = <<>>
    /\ max_attempts = 0
    /\ package_json = FALSE
    /\ rt_pc = "idle"
    /\ attempt = 0
    /\ rt_result = "none"
    /\ executions = 0
    /\ fixes = 0
    /\ error_file = <<>>
    /\ outcomes = <<>>
MainIdle == main_pc = "idle" /\ phases = <<>>
PlannerIdle == topic = <<>> /\ fallback_structure = InitialFallbackStructure

\* run_tests alone, for every command, attempt budget and test outcome
TestsInit ==
    RunTestsInit /\ PlannerIdle /\ AskIdle /\ ParseIdle /\ NameIdle /\ CreateIdle /\ DirectIdle /\ MainIdle

SpecTests == TestsInit /\ [][RunTestsNext]_vars

\* ask alone, for every topic and every sequence of responses
AskAloneInit ==
    AskInit /\ ParseIdle /\ NameIdle /\ CreateIdle /\ DirectIdle /\ RunTestsIdle /\ MainIdle

SpecAsk == AskAloneInit /\ [][AskNext]_vars

\* parse_structure applied to a text
FileObjects ==
    {[k \in K |-> CASE k = "path" -> p
                    [] k = "description" -> Text("what the file does")
                    [] OTHER -> Text("write the file")] :
        K \in SUBSET FileKeys, p \in {<<>>, MainPyPath}}
FileLists == UNION {[1..n -> FileObjects] : n \in 0..MaxFiles}
TopKeys == {"folders", "files", "interactions", "test_command"}
Blueprints ==
    {[k \in K |-> CASE k = "folders" -> <<(<<N_src>>)>>
                    [] k = "files" -> files
                    [] k = "interactions" -> Text("how the files work together")
                    [] OTHER -> CmdPytest] :
        K \in SUBSET TopKeys, files \in FileLists}
ParseInputs ==
    {pre \o JsonDumps(b) \o post :
        b \in Blueprints,
        pre \in {<<>>, <<Ch(" ")>>, FenceJson \o <<Ch("\n")>>, Fence \o <<Ch("\n")>>},
        post \in {<<>>, <<Ch("\n")>>, <<Ch("\n")>> \o Fence}}
    \cup {<<>>, <<Ch("n"), Ch("o")>>}

ParseInit ==
    /\ json_string \in ParseInputs
    /\ ps_result = NotParsed
    /\ PlannerIdle /\ AskIdle /\ NameIdle /\ CreateIdle /\ DirectIdle /\ RunTestsIdle /\ MainIdle

ParseCall ==
    /\ ps_result = NotParsed
    /\ ps_result' = ParseStructure(json_string)
    /\ UNCHANGED <<directVars, json_string, plannerVars, askVars, nameVars, createVars, rtVars, mainVars>>

ParseNext == ParseCall

SpecParse == ParseInit /\ [][ParseNext]_vars

\* _sanitize_name applied to a topic: short topics over a few characters,
\* and long ones whose middle is a run of letters that reaches the limit
SanitizeAlphabet == {"a", ".", " ", "/"}
Affixes == UNION {[1..n -> SanitizeAlphabet] : n \in 0..MaxAffix}
Pad(n) == [i \in 1..n |-> "a"]
SanitizeTopics ==
    {head \o Pad(n) \o tail : head \in Affixes, tail \in Affixes, n \in {0, NameLimit - MaxAffix}}

SanitizeInit ==
    /\ topic \in SanitizeTopics
    /\ fallback_structure = InitialFallbackStructure
    /\ sn_result = <<>>
    /\ AskIdle /\ ParseIdle /\ CreateIdle /\ DirectIdle /\ RunTestsIdle /\ MainIdle

SanitizeCall ==
    /\ sn_result = <<>>
    /\ sn_result' = <<SanitizeName(topic)>>
    /\ UNCHANGED <<directVars, plannerVars, askVars, parseVars, createVars, rtVars, mainVars>>

SanitizeNext == SanitizeCall

SpecSanitize == SanitizeInit /\ [][SanitizeNext]_vars

\* _get_fallback_structure called directly, several times on one planner:
\* topics with a web word, with a web and a backend word, with a backend
\* word, and with neither
TopicWebsite == <<"M", "y", " ", "w", "e", "b", "s", "i", "t", "e">>
TopicBackend == <<"B", "A", "C", "K", "E", "N", "D">>
FallbackTopics ==
    {TopicWebApi, TopicWebsite, TopicServer, TopicBackend, TopicCli, TopicGame}

FallbackInit ==
    /\ PlannerIdle /\ AskIdle /\ ParseIdle /\ NameIdle /\ CreateIdle /\ DirectIdle
    /\ RunTestsIdle /\ MainIdle

FallbackCall ==
    /\ Len(fb_calls) < MaxFallbackCalls
    /\ \E t \in FallbackTopics :
        LET returned == GetFallbackStructure(fallback_structure, t)
        IN /\ topic' = t
           /\ fb_result' = returned.text
           /\ fallback_structure' = returned.stored
           /\ fb_calls' = Append(fb_calls, t)
    /\ UNCHANGED <<cs_initial, cs_calls, askVars, parseVars, nameVars, createVars,
                   rtVars, mainVars>>

FallbackNext == FallbackCall

SpecFallback == FallbackInit /\ [][FallbackNext]_vars

\* create_structure called directly, once or several times in succession
\* for one topic, on a desktop that is empty, that holds other things and an
\* earlier project of the topic, or that holds a file where the project goes
TopicDots == <<".", " ", ".">>
CreateTopics == {TopicGame, TopicCli, TopicDots}

N_notes_txt == <<"n", "o", "t", "e", "s", ".", "t", "x", "t">>
N_old_py == <<"o", "l", "d", ".", "p", "y">>
OtherContent == [what |-> "other"]
EmptyDesktop == (<<>> :> Dir)
UsedDesktop(t) ==
    EmptyDesktop @@ (<<N_notes_txt>> :> File(OtherContent))
                 @@ (ProjectPath(t) :> Dir)
                 @@ (ProjectPath(t) \o <<N_old_py>> :> File(OtherContent))
BlockedDesktop(t) == EmptyDesktop @@ (ProjectPath(t) :> File(OtherContent))
InitialFileSystems(t) == {EmptyDesktop, UsedDesktop(t), BlockedDesktop(t)}

\* validated blueprints: the three fallback templates, and remote ones with
\* an npm command, with no test_command key, and with an empty file path
CreateBlueprints ==
    {GenericStructure(InitialFallbackStructure, TopicGame), WebStructure(TopicWebApi),
     BackendStructure(TopicServer), DocGood, WithDefaults(DocOnlyFiles), DocEmptyPath}

CreateInit ==
    /\ topic \in CreateTopics
    /\ fallback_structure = InitialFallbackStructure
    /\ fs \in InitialFileSystems(topic)
    /\ cs_result = "none"
    /\ DirectIdle /\ AskIdle /\ ParseIdle /\ NameIdle /\ RunTestsIdle /\ MainIdle

CreateCall ==
    /\ Len(cs_calls) < MaxCreateCalls
    /\ \E structure \in CreateBlueprints :
        LET created == CreateStructure(fs, topic, structure)
        IN /\ fs' = created.fs
           /\ cs_result' = created.err
           /\ cs_calls' = Append(cs_calls, structure)
    /\ sn_result' = <<SanitizeName(topic)>>
    /\ UNCHANGED <<fb_result, fb_calls, cs_initial, plannerVars, askVars, parseVars,
                   rtVars, mainVars>>

CreateNext == CreateCall

SpecCreate == CreateInit /\ [][CreateNext]_vars

\* main: one run, from the call of ask on.  main calls run_tests only with a
\* non-empty command, so the first return of run_tests is never taken here.
MainInit ==
    /\ AskInit /\ ParseIdle /\ NameIdle /\ CreateIdle /\ DirectIdle /\ RunTestsIdle
    /\ main_pc = "ask"
    /\ phases = <<"ask">>

MainNext ==
    \/ AskSuccess
    \/ AskTimeout
    \/ AskRequestException
    \/ AskKeyOrIndexError
    \/ AskUncaught
    \/ MainAskRaised
    \/ MainParse
    \/ MainCreate
    \/ MainCopilot
    \/ MainRunTests
    \/ MainSkipTests
    \/ MainTestsReturned
    \/ SkipNoPackageJson
    \/ EnterLoop
    \/ TestPassed
    \/ TestFailed
    \/ CreateErrorFixFile
    \/ FixWithCopilot
    \/ TestTimeout
    \/ TestError
    \/ Exhausted

SpecMain == MainInit /\ [][MainNext]_vars

(***************************************************************************)
(* Properties of run_tests                                                 *)
(***************************************************************************)
Returned == rt_pc \in ReturnLabels
Skipped == rt_pc \in {"ret_no_command", "ret_no_package_json"}
FailedExit(o) == o.kind = "exit" /\ o.returncode # 0
PassedExit(o) == o.kind = "exit" /\ o.returncode = 0
NpmStyleCommands == {CmdNpmTest, CmdNpmUpper}

\* C1: a call of run_tests whose command is not skipped executes the test
\* command at most max_attempts times; if every execution exits non-zero the
\* call makes exactly max_attempts executions and returns False.
C1_ExecutionsBounded ==
    /\ executions <= max_attempts
    /\ (Returned /\ ~Skipped /\ (\A i \in 1..Len(outcomes) : FailedExit(outcomes[i])))
           => (executions = max_attempts /\ rt_result = "False")

C1_Witness ==
    /\ rt_pc = "ret_exhausted"
    /\ max_attempts = 3
    /\ executions = 3
    /\ \A i \in 1..Len(outcomes) : FailedExit(outcomes[i])

\* C2: the fix is invoked after a non-zero exit only when the attempt number
\* is below max_attempts, so a call makes at most max_attempts - 1 fix
\* invocations; with max_attempts = 3 and a command that always fails there
\* are exactly 3 executions and exactly 2 fix invocations.
C2_FixesBelowMaxAttempts ==
    /\ max_attempts >= 1 => fixes <= max_attempts - 1
    /\ (rt_pc = "ret_exhausted" /\ max_attempts = 3)
           => (executions = 3 /\ fixes = 2)

\* C3: if some execution k exits 0, it is the last one: run_tests has then
\* made exactly k executions and exactly k - 1 fix invocations, and it
\* returns True.
C3_FirstPassEndsRun ==
    \A k \in 1..Len(outcomes) :
        PassedExit(outcomes[k]) =>
            /\ k = Len(outcomes)
            /\ k <= max_attempts
            /\ \A i \in 1..(k - 1) : FailedExit(outcomes[i])
            /\ executions = k
            /\ fixes = k - 1
            /\ rt_pc = "ret_passed"
            /\ rt_result = "True"

C3_Witness ==
    /\ max_attempts = 3
    /\ Len(outcomes) = 2
    /\ FailedExit(outcomes[1])
    /\ PassedExit(outcomes[2])
    /\ executions = 2
    /\ fixes = 1
    /\ rt_result = "True"

\* C4: a timeout or an unexpected error of a test execution ends run_tests
\* with False at once: it is the last execution and no fix follows it,
\* whatever is left of the attempt budget.
C4_TimeoutOrErrorIsTerminal ==
    \A k \in 1..Len(outcomes) :
        outcomes[k].kind \in {"timeout", "error"} =>
            /\ k = Len(outcomes)
            /\ executions = k
            /\ fixes = k - 1
            /\ rt_pc = (IF outcomes[k].kind = "timeout" THEN "ret_timeout" ELSE "ret_error")
            /\ rt_result = "False"

C4_Witness ==
    /\ rt_pc = "ret_timeout"
    /\ executions = 2
    /\ max_attempts = 3
    /\ fixes = 1

\* C5: with an empty test command run_tests returns True at once, for every
\* max_attempts: no execution, no fix invocation, no error file.
C5_EmptyCommandSkips ==
    (test_command = CmdEmpty /\ rt_pc # "entry") =>
        /\ rt_pc = "ret_no_command"
        /\ rt_result = "True"
        /\ executions = 0
        /\ fixes = 0
        /\ error_file = <<>>

C5_Witness ==
    /\ test_command = CmdEmpty
    /\ rt_pc = "ret_no_command"
    /\ max_attempts = 3

\* C6: an npm-style command without package.json in the project makes
\* run_tests return True with no execution and no fix invocation; with
\* package.json present the command is executed as any other command is.
C6_NpmWithoutManifestSkips ==
    test_command \in NpmStyleCommands =>
        /\ (~package_json /\ rt_pc # "entry") =>
               /\ rt_pc = "ret_no_package_json"
               /\ rt_result = "True"
               /\ executions = 0
               /\ fixes = 0
        /\ package_json =>
               /\ ~Skipped
               /\ (Returned /\ max_attempts >= 1) => executions >= 1

C6_Witness ==
    /\ test_command = CmdNpmUpper
    /\ ~package_json
    /\ rt_pc = "ret_no_package_json"
    /\ max_attempts = 3

(***************************************************************************)
(* Properties of ask                                                       *)
(***************************************************************************)
\* C7: whatever each attempt does (success, timeout, network failure,
\* malformed response shape), ask never raises; it makes at most 3 remote
\* calls, one per timeout stage, none after a successful one, and returns
\* the content of the first successful response or, after 3 failed
\* attempts, the fallback blueprint for the topic.
C7_AskNeverFatal ==
    /\ ask_pc # "raised"
    /\ Len(ask_calls) <= 3
    /\ ask_calls = Take(Timeouts, Len(ask_calls))
    /\ ask_pc = "returned" =>
          \/ /\ ask_result.how = "remote"
             /\ TryBody(ask_last) = "ok"
             /\ ask_result.text = Strip(ask_last.content)
          \/ /\ ask_result.how = "fallback"
             /\ Len(ask_calls) = 3
             /\ TryBody(ask_last) # "ok"
             /\ ask_result.text = GetFallbackStructure(InitialFallbackStructure, topic).text

(***************************************************************************)
(* Properties of parse_structure                                           *)
(***************************************************************************)
\* the JSON document a text carries
TextDoc(s) == s[CHOOSE i \in DOMAIN s : s[i].d # <<>>].d[1]
CarriesDoc(s) == \E i \in DOMAIN s : s[i].d # <<>>
DeclaredFiles(doc) == IF "files" \in DOMAIN doc THEN doc["files"] ELSE <<>>
LacksKey(file_obj) == ~(FileKeys \subseteq DOMAIN file_obj)

\* C8: a blueprint in which some file object lacks path, description or
\* copilot_prompt is rejected as a whole with a ValueError; any other
\* blueprint is accepted, with [] for a missing folders, [] for a missing
\* files and "" for a missing interactions, and every key that was present
\* left as it was.
C8_ValidationAllOrNothing ==
    /\ (ps_result # NotParsed /\ Len(json_string) = 1 /\ CarriesDoc(json_string))
           => ps_result.status \in {"ok", "ValueError"}
    /\ ps_result.status \in {"ok", "ValueError"} =>
          LET doc == TextDoc(json_string)
              files == DeclaredFiles(doc)
          IN IF \E i \in DOMAIN files : LacksKey(files[i])
             THEN ps_result = [status |-> "ValueError", structure |-> <<>>]
             ELSE /\ ps_result.status = "ok"
                  /\ LET s == ps_result.structure[1]
                     IN /\ DOMAIN s = DOMAIN doc \cup {"folders", "files", "interactions"}
                        /\ \A k \in DOMAIN doc : s[k] = doc[k]
                        /\ "folders" \notin DOMAIN doc => s["folders"] = <<>>
                        /\ "files" \notin DOMAIN doc => s["files"] = <<>>
                        /\ "interactions" \notin DOMAIN doc => s["interactions"] = Text("")

C8_Witness ==
    /\ ps_result.status = "ValueError"
    /\ LET files == DeclaredFiles(TextDoc(json_string))
       IN /\ Len(files) = 2
          /\ ~LacksKey(files[1])
          /\ DOMAIN files[2] = {"path", "description"}

(***************************************************************************)
(* Properties of main                                                      *)
(***************************************************************************)
HasEmptyPath(s) ==
    /\ CarriesDoc(s)
    /\ \E i \in DOMAIN DeclaredFiles(TextDoc(s)) :
          LET file_obj == DeclaredFiles(TextDoc(s))[i]
          IN "path" \in DOMAIN file_obj /\ file_obj["path"] = <<>>

\* C9: a blueprint with a file object whose path is the empty string is
\* rejected by the validation and never reaches create_structure.
C9_EmptyPathRejected ==
    HasEmptyPath(json_string) =>
        /\ ps_result.status # "ok"
        /\ "create" \notin Range(phases)

(***************************************************************************)
(* Properties of _sanitize_name                                            *)
(***************************************************************************)
\* C10: for every topic, also one longer than the limit whose character at
\* the limit is a dot or a space, the sanitized name holds no illegal
\* character, neither starts nor ends with a dot or a space, and has at
\* most 50 characters.
C10_SanitizedNameClean ==
    sn_result # <<>> =>
        LET name == sn_result[1]
        IN /\ \A i \in DOMAIN name : name[i] \notin IllegalChars
           /\ name # <<>> => (name[1] \notin {".", " "} /\ name[Len(name)] \notin {".", " "})
           /\ Len(name) <= 50

(***************************************************************************)
(* Properties of create_structure                                          *)
(***************************************************************************)
CreateReturned == cs_calls # <<>>
LastBlueprint == cs_calls[Len(cs_calls)]

\* C11: when the sanitized topic is the empty string, create_structure fails
\* with a validation error before it changes the file system: nothing on
\* the desktop, and not the desktop itself, is deleted or created.
C11_EmptyNameRejected ==
    (CreateReturned /\ SanitizeName(topic) = <<>>)
        => (cs_result = "ValueError" /\ fs = cs_initial)

DeclaredPaths(structure) == {structure["files"][i]["path"] : i \in DOMAIN structure["files"]}

\* C12: create_structure is idempotent per topic: after create_structure
\* with blueprint B1 and then with blueprint B2 for the same topic, the
\* desktop, the project tree in it, and the outcome are the ones that
\* create_structure with B2 alone leaves; nothing of B1 is left over.
C12_CreateIdempotent ==
    Len(cs_calls) >= 2 =>
        LET alone == CreateStructure(cs_initial, topic, LastBlueprint)
        IN fs = alone.fs /\ cs_result = alone.err

\* two successful calls in succession, the first of which declared a file
\* that the second does not
C12_Witness ==
    /\ Len(cs_calls) = 2
    /\ cs_result = "ok"
    /\ CreateStructure(cs_initial, topic, cs_calls[1]).err = "ok"
    /\ DeclaredPaths(cs_calls[1]) \ DeclaredPaths(cs_calls[2]) # {}
    /\ \A path \in DeclaredPaths(cs_calls[1]) \ DeclaredPaths(cs_calls[2]) :
        ~Exists(fs, ProjectPath(topic) \o path)

\* C13: after create_structure returns, every file the blueprint declares
\* exists at its path below the project directory and holds exactly the
\* stub made of its description and its prompt; this includes a declared
\* file whose path is README.md.
C13_DeclaredFilesHoldStubs ==
    (CreateReturned /\ cs_result = "ok") =>
        \A i \in DOMAIN LastBlueprint["files"] :
            LET file_obj == LastBlueprint["files"][i]
                file_path == ProjectPath(topic) \o file_obj["path"]
            IN /\ IsFile(fs, file_path)
               /\ fs[file_path].content.what = "stub"
               /\ fs[file_path].content.description = file_obj["description"]
               /\ fs[file_path].content.copilot_prompt = file_obj["copilot_prompt"]

(***************************************************************************)
(* Properties of _get_fallback_structure                                   *)
(***************************************************************************)
FallbackReturned == fb_calls # <<>>
IsGeneric(t) == ~AnyWordIn(WebWords, t) /\ ~AnyWordIn(BackendWords, t)

\* C14: _get_fallback_structure is deterministic: after any sequence of
\* earlier calls on one planner, with any topics, a call with topic T
\* returns the text that the first call on a fresh planner returns for T.
C14_FallbackDeterministic ==
    FallbackReturned =>
        fb_result = GetFallbackStructure(InitialFallbackStructure, topic).text

\* a call with a generic topic on a planner whose previous call had another
\* generic topic
C14_Witness ==
    /\ Len(fb_calls) >= 2
    /\ IsGeneric(topic)
    /\ IsGeneric(fb_calls[Len(fb_calls) - 1])
    /\ fb_calls[Len(fb_calls) - 1] # topic

FallbackDoc == fb_result[1].d[1]
HasFolder(doc, name) == \E i \in DOMAIN doc["folders"] : doc["folders"][i] = <<name>>
HasFile(doc, path) == \E i \in DOMAIN doc["files"] : doc["files"][i]["path"] = path
IsWebTemplate(doc) ==
    /\ HasFolder(doc, N_css) /\ HasFolder(doc, N_js)
    /\ HasFile(doc, <<N_src, N_index_html>>)
    /\ doc["test_command"] = CmdEmpty
IsBackendTemplate(doc) ==
    /\ HasFolder(doc, N_config)
    /\ HasFile(doc, <<N_src, N_app_py>>)
    /\ doc["test_command"] = CmdPytest
IsGenericTemplate(doc) ==
    /\ HasFolder(doc, N_docs)
    /\ HasFile(doc, MainPyPath)
    /\ doc["test_command"] = CmdPytest

\* C15: the fallback classification is first-match-wins on the lowercased
\* topic: a topic with one of web, website, html, css, js gives the web
\* template (folders css and js, empty test command) even when it also has
\* a backend word; otherwise a topic with one of api, server, backend gives
\* the backend template with 'pytest tests'; any other topic gives the
\* generic template with 'pytest tests'.
C15_FirstMatchWins ==
    FallbackReturned =>
        IF \E w \in WebWords : Contains(Lower(topic), w)
        THEN IsWebTemplate(FallbackDoc)
        ELSE IF \E w \in BackendWords : Contains(Lower(topic), w)
        THEN IsBackendTemplate(FallbackDoc)
        ELSE IsGenericTemplate(FallbackDoc)

\* a call whose topic has a web word and a backend word, answered with the
\* web template
C15_Witness ==
    /\ FallbackReturned
    /\ topic = TopicWebApi
    /\ Contains(Lower(topic), <<"w", "e", "b">>)
    /\ Contains(Lower(topic), <<"a", "p", "i">>)
    /\ IsWebTemplate(FallbackDoc)

\* C20: _get_fallback_structure is pure: a call leaves the planner's stored
\* state as it was, in particular the generic template in
\* fallback_structure, its list of files and the prompt of each file.
C20_FallbackPure ==
    [][fallback_structure' = fallback_structure]_vars

Summary == fs[ProjectPath(topic) \o <<N_README_md>>].content

\* C16: the summary document that create_structure writes has a line
\* naming the test command if and only if the blueprint's test command is
\* present and non-empty, and the line names exactly that command.
C16_TestingLineIffCommand ==
    (CreateReturned /\ cs_result = "ok") =>
        /\ Summary.what = "readme"
        /\ IF "test_command" \in DOMAIN LastBlueprint
              /\ Len(LastBlueprint["test_command"]) > 0
           THEN Summary.testing = <<LastBlueprint["test_command"]>>
           ELSE Summary.testing = <<>>

\* a summary written for a blueprint with the command 'npm test'
C16_Witness ==
    /\ CreateReturned
    /\ cs_result = "ok"
    /\ LastBlueprint = DocGood
    /\ Summary.what = "readme"
    /\ Summary.testing = <<CmdNpmTest>>

(***************************************************************************)
(* Properties of main                                                      *)
(***************************************************************************)
PhaseRank(phase) ==
    CASE phase = "ask" -> 1
      [] phase = "parse" -> 2
      [] phase = "create" -> 3
      [] phase = "copilot" -> 4
      [] phase = "tests" -> 5
Started(phase) == phase \in Range(phases)
ValidationRaised == ps_result.status \in {"JSONDecodeError", "ValueError"}
CreateRaised == cs_result \notin {"none", "ok"}

\* C17: a run is strictly ordered and stops at a validation or
\* materialization error: create_structure starts only after
\* parse_structure returned a blueprint; Copilot code generation, run_tests
\* and every test execution start only after create_structure returned;
\* once parse_structure or create_structure has raised, no later phase
\* starts and the run ends.
C17_RunOrderedAndAborts ==
    /\ \A i, j \in DOMAIN phases : i < j => PhaseRank(phases[i]) < PhaseRank(phases[j])
    /\ Started("create") => ps_result.status = "ok"
    /\ (Started("copilot") \/ Started("tests") \/ rt_pc # "idle"
            \/ executions > 0 \/ fixes > 0)
        => (Started("create") /\ cs_result = "ok")
    /\ ValidationRaised =>
        /\ main_pc = "error"
        /\ ~Started("create") /\ ~Started("copilot") /\ ~Started("tests")
        /\ cs_result = "none" /\ fs = EmptyDesktop
        /\ rt_pc = "idle" /\ executions = 0 /\ fixes = 0
    /\ CreateRaised =>
        /\ main_pc = "error"
        /\ ~Started("copilot") /\ ~Started("tests")
        /\ rt_pc = "idle" /\ executions = 0 /\ fixes = 0

\* a run that create_structure ended by raising
C17_Witness ==
    /\ CreateRaised
    /\ main_pc = "error"
    /\ phases = <<"ask", "parse", "create">>

(***************************************************************************)
(* Properties of parse_structure: code fences                              *)
(***************************************************************************)
Newline == <<Ch("\n")>>
Fenced(opening, text) == opening \o Newline \o text \o Newline \o Fence
Unfenced(s) == JsonDumps(TextDoc(s))

\* C18: stripping code fences is transparent: for a valid JSON blueprint
\* text J, parse_structure of J wrapped in a code fence, whose opening line
\* has the language tag json or has no tag, returns what parse_structure
\* returns for J itself.
C18_FenceTransparent ==
    (/\ ps_result # NotParsed
     /\ CarriesDoc(json_string)
     /\ \E opening \in {FenceJson, Fence} :
            json_string = Fenced(opening, Unfenced(json_string)))
        => ps_result = ParseStructure(Unfenced(json_string))

(***************************************************************************)
(* Properties of run_tests: the error file                                 *)
(***************************************************************************)
SomeExecutionFailed == \E i \in DOMAIN outcomes : FailedExit(outcomes[i])
LastFailedExecution ==
    outcomes[CHOOSE i \in DOMAIN outcomes :
                /\ FailedExit(outcomes[i])
                /\ \A j \in DOMAIN outcomes : j > i => ~FailedExit(outcomes[j])]
AtFixInvocation == rt_pc = "fixing"

\* C19: copilot_error_fix.txt exists only in runs in which some test
\* execution exited non-zero; it is written before each call of
\* _fix_with_copilot and overwritten, not accumulated: at every call of
\* _fix_with_copilot and at the end of the run it holds exactly the stderr
\* and the stdout of the most recent execution that exited non-zero.
C19_ErrorFileHoldsLastFailure ==
    /\ error_file # <<>> => SomeExecutionFailed
    /\ AtFixInvocation => SomeExecutionFailed
    /\ ((AtFixInvocation \/ Returned) /\ SomeExecutionFailed) =>
        /\ Len(error_file) = 1
        /\ error_file[1].stderr = LastFailedExecution.stderr
        /\ error_file[1].stdout = LastFailedExecution.stdout

\* the second call of _fix_with_copilot, after two failed executions whose
\* stderr differ
C19_Witness ==
    /\ AtFixInvocation
    /\ fixes = 1
    /\ Len(outcomes) = 2
    /\ outcomes[1].stderr # outcomes[2].stderr
    /\ error_file = <<[stderr |-> outcomes[2].stderr, stdout |-> outcomes[2].stdout]>>

(***************************************************************************)
(* Properties of the fallback blueprint in a run                           *)
(***************************************************************************)
FellBack == ask_result.how = "fallback"
FallbackParsed == ParseStructure(ask_result.text)

\* C21: every blueprint of the fallback planner passes validation: for
\* every topic parse_structure(_get_fallback_structure(topic)) returns a
\* blueprint with three files, each with path, description and
\* copilot_prompt; so a run in which every remote attempt failed with a
\* caught error goes on to create_structure.
C21_FallbackPassesValidation ==
    FellBack =>
        /\ FallbackParsed.status = "ok"
        /\ Len(FallbackParsed.structure[1]["files"]) = 3
        /\ \A i \in DOMAIN FallbackParsed.structure[1]["files"] :
            {"path", "description", "copilot_prompt"}
                \subseteq DOMAIN FallbackParsed.structure[1]["files"][i]
        /\ Started("parse") =>
            /\ ps_result = FallbackParsed
            /\ main_pc = "create" \/ Started("create")

\* a run whose three remote attempts failed, parsed and about to create
C21_Witness ==
    /\ FellBack
    /\ Len(ask_calls) = Len(Timeouts)
    /\ Started("parse")
    /\ ps_result.status = "ok"
    /\ main_pc = "create"

(***************************************************************************)
(* Properties of run_tests: what True means                                *)
(***************************************************************************)
SomeExecutionPassed == \E i \in DOMAIN outcomes : PassedExit(outcomes[i])
TrueIsSkipOrPass ==
    rt_result = "True" =>
        \/ executions = 0 /\ outcomes = <<>> /\ fixes = 0
        \/ /\ executions >= 1
           /\ executions = Len(outcomes)
           /\ outcomes[Len(outcomes)].kind = "exit"
           /\ outcomes[Len(outcomes)].returncode = 0
NothingAfterPass ==
    SomeExecutionPassed =>
        /\ executions' = executions
        /\ outcomes' = outcomes
        /\ fixes' = fixes
        /\ error_file' = error_file

\* C22: run_tests returns True only when nothing was executed or the last
\* test execution exited 0: in every call that returns True after at least
\* one execution the last execution's return code is 0; and after an
\* execution that exited 0 there is no further test execution and no
\* further call of _fix_with_copilot.
C22_TrueOnlyOnSkipOrPass ==
    []TrueIsSkipOrPass /\ [][NothingAfterPass]_vars

\* a call that returned True after a failed and then a passed execution
C22_Witness ==
    /\ rt_result = "True"
    /\ executions = 2
    /\ fixes = 1
    /\ outcomes[1].returncode # 0
    /\ outcomes[2].returncode = 0

====
